---- MODULE Spec2Model ----
(***************************************************************************)
(* A model of the State class of src/src/index.js (lines 1-228) and of     *)
(* deepMerge (src/unnamed/part_000).                                       *)
(*                                                                         *)
(* JavaScript values are records [t, n]: t is the type tag and n the       *)
(* number, the boolean (0/1), the string (see Str) or, for an object, its  *)
(* address in the heap.  Objects live in a heap because the code shares    *)
(* and mutates them: deepMerge stores the caller's object in the tree, and *)
(* === on objects compares addresses.                                      *)
(*                                                                         *)
(* A name (a dotted path string) is the sequence of its segments; the      *)
(* empty string is the empty sequence.                                     *)
(***************************************************************************)
EXTENDS Integers, Sequences, FiniteSets, TLC

VARIABLES
  heap,      \* the objects: heap[Root] is this._data
  options,   \* this._options: name -> record
  subs,      \* this._subscriptions (a deleted entry is a Hole)
  nextId,    \* the Symbol() the next subscribe call draws
  cancelled, \* history: the subscriptions handle.unsubscribe() calls named
  purged,    \* history: the subscriptions unsubscribeAll calls named
  calls,     \* the callback invocations of the last public call, in order
  last       \* the last public call: its arguments, result and path taken

vars == <<heap, options, subs, nextId, cancelled, purged, calls, last>>

----------------------------------------------------------------------------
(* Values *)

V(t, n) == [t |-> t, n |-> n]

Undef  == V("undefined", 0)
Null   == V("null", 0)
Absent == V("absent", 0)        \* no such own key / no such argument
Num(n) == V("number", n)
Bool(b) == V("boolean", IF b THEN 1 ELSE 0)
Str(n) == V("string", n)        \* the decimal text of n
StrX   == V("string", -1)       \* a text that is no number ('test')
NaN    == V("NaN", 0)
Obj(a) == V("object", a)

\* JavaScript truthiness (every string of the model is non-empty).
Truthy(v) ==
  CASE v.t = "object"  -> TRUE
    [] v.t = "number"  -> v.n # 0
    [] v.t = "boolean" -> v.n = 1
    [] v.t = "string"  -> TRUE
    [] OTHER           -> FALSE

\* a === b.  NaN is not equal to itself, objects compare by address.
StrictEq(a, b) == a = b /\ a # NaN

\* The own keys an object can have; "" is the key set('', v) creates.
AllKeys == {"", "a", "b"}

\* Object.keys order: insertion order.  The objects of the model get their
\* keys in this order.
KeyOrder == <<"", "a", "b">>

EmptyObject == [k \in AllKeys |-> Absent]

\* this._data is created once (line 7) and deepMerge returns its target.
Root == 1

isObject(item) == item.t = "object"

\* isPlainObject of deep-merge.js: a plain mapping.
isPlainObject(value) == value.t = "object"

\* item[index]
Index(h, item, key) ==
  IF item.t = "object" /\ key \in AllKeys /\ h[item.n][key] # Absent
  THEN h[item.n][key]
  ELSE Undef

\* Object.keys(obj), as a sequence
RECURSIVE KeysFrom(_, _, _)
KeysFrom(h, a, order) ==
  IF order = <<>> THEN <<>>
  ELSE IF h[a][Head(order)] # Absent
       THEN <<Head(order)>> \o KeysFrom(h, a, Tail(order))
       ELSE KeysFrom(h, a, Tail(order))

ObjectKeys(h, v) == KeysFrom(h, v.n, KeyOrder)

----------------------------------------------------------------------------
(* Names *)

EmptyName == <<>>                 \* ''
NoName    == <<"undefined">>      \* the argument was not given

Falsy(name) == name = EmptyName \/ name = NoName

\* name.split('.'): ''.split('.') is ['']
Split(name) == IF name = EmptyName THEN <<"">> ELSE name

\* parts.join('.'): [''].join('.') is ''
Join(parts) == IF parts = <<"">> THEN EmptyName ELSE parts

----------------------------------------------------------------------------
(* _get *)

RECURSIVE GetFrom(_, _, _)
GetFrom(h, item, parts) ==
  IF parts = <<>> THEN item
  ELSE GetFrom(h, IF Truthy(item) THEN Index(h, item, Head(parts)) ELSE Undef,
               Tail(parts))

_get(h, name, data) ==
  IF Falsy(name) THEN data ELSE GetFrom(h, data, Split(name))

get(h, name) == _get(h, name, Obj(Root))

----------------------------------------------------------------------------
(* deepMerge *)

Store(h, a, key, value) == [h EXCEPT ![a][key] = value]

RECURSIVE deepMerge(_, _, _)
RECURSIVE MergeKeys(_, _, _, _)

\* The forEach over Object.keys(source): the heap after the loop.
MergeKeys(h, target, source, keys) ==
  IF keys = <<>> THEN h
  ELSE LET key == Head(keys)
           sv  == h[source.n][key]
           h1  == IF isObject(sv)
                  THEN LET tv == Index(h, target, key)
                           h2 == IF ~Truthy(tv) \/ ~isObject(tv)
                                 THEN Store(h, target.n, key, sv)
                                 ELSE h
                       IN  deepMerge(h2, Index(h2, target, key), sv)
                  ELSE Store(h, target.n, key, sv)
       IN  MergeKeys(h1, target, source, Tail(keys))

\* The heap after deepMerge(target, source); the call returns target.
deepMerge(h, target, source) ==
  IF isObject(target) /\ isObject(source)
  THEN MergeKeys(h, target, source, ObjectKeys(h, source))
  ELSE h

----------------------------------------------------------------------------
(* name.split('.').reduceRight((previous, current) => ({[current]: previous}), value) *)

Alloc(h, obj) == [heap |-> Append(h, obj), ref |-> Obj(Len(h) + 1)]

RECURSIVE WrapFrom(_, _, _)
WrapFrom(h, parts, previous) ==
  IF parts = <<>> THEN [heap |-> h, ref |-> previous]
  ELSE LET current == parts[Len(parts)]
           made    == Alloc(h, [EmptyObject EXCEPT ![current] = previous])
       IN  WrapFrom(made.heap, SubSeq(parts, 1, Len(parts) - 1), made.ref)

ModifiedData(h, name, value) == WrapFrom(h, Split(name), value)

----------------------------------------------------------------------------
(* _objectToDotNotation: the flattened entries, in Object.entries order.  The
   prefix is the sequence of the segments before its trailing dot. *)

RECURSIVE _objectToDotNotation(_, _, _)
RECURSIVE FlattenEntries(_, _, _, _)

FlattenEntries(h, data, prefix, keys) ==
  IF keys = <<>> THEN <<>>
  ELSE LET key          == Head(keys)
           value        == h[data.n][key]
           flattenedKey == prefix \o <<key>>
       IN  (IF isPlainObject(value)
            THEN _objectToDotNotation(h, value, flattenedKey)
            ELSE << [key |-> Join(flattenedKey), value |-> value] >>)
           \o FlattenEntries(h, data, prefix, Tail(keys))

_objectToDotNotation(h, data, prefix) ==
  IF data.t = "object"
  THEN FlattenEntries(h, data, prefix, ObjectKeys(h, data))
  ELSE <<>>

----------------------------------------------------------------------------
(* _hasSubArray: sub.every((i => v => i = master.indexOf(v, i) + 1)(0)) *)

\* master.indexOf(v, i), indices from 0; -1 when v is not found at or after i
IndexOf(master, v, i) ==
  LET hits == {j \in i .. (Len(master) - 1) : master[j + 1] = v}
  IN  IF hits = {} THEN -1 ELSE CHOOSE j \in hits : \A k \in hits : j <= k

RECURSIVE EveryFrom(_, _, _)
EveryFrom(master, sub, i) ==
  IF sub = <<>> THEN TRUE
  ELSE LET next == IndexOf(master, Head(sub), i) + 1
       IN  IF next = 0 THEN FALSE ELSE EveryFrom(master, Tail(sub), next)

\* the mutation of C2: the two arrays are compared for equality
EqualArrays(master, sub) == master = sub

_hasSubArray(master, sub) == EveryFrom(master, sub, 0)

----------------------------------------------------------------------------
(* Option records.  A key the record does not have is Absent ("absent" for
   the type); allowedValues is [present, values]. *)

NoAllowed == [present |-> FALSE, values |-> {}]
Allowed(values) == [present |-> TRUE, values |-> values]

Record(defaultValue, type, allowedValues, sameReferenceCheck) ==
  [defaultValue |-> defaultValue, type |-> type,
   allowedValues |-> allowedValues, sameReferenceCheck |-> sameReferenceCheck,
   function |-> "absent"]

\* { type: 'custom', function: fn, defaultValue }: fn names what the function
\* does (see Apply)
Custom(fn, defaultValue) ==
  [Record(defaultValue, "custom", NoAllowed, Absent) EXCEPT !.function = fn]

\* {} : what spreading null adds
EmptyRecord == Record(Absent, "absent", NoAllowed, Absent)

\* this._defaultOptions (its triggerSubscriptionCallback and isFunction are
\* never read from a resolved record)
_defaultOptions == Record(Undef, "absent", NoAllowed, Bool(TRUE))

\* { ...this._defaultOptions, ...options }
Overlay(defaults, rec) ==
  [defaultValue  |-> IF rec.defaultValue # Absent
                     THEN rec.defaultValue ELSE defaults.defaultValue,
   type          |-> IF rec.type # "absent" THEN rec.type ELSE defaults.type,
   allowedValues |-> IF rec.allowedValues.present
                     THEN rec.allowedValues ELSE defaults.allowedValues,
   sameReferenceCheck |-> IF rec.sameReferenceCheck # Absent
                          THEN rec.sameReferenceCheck
                          ELSE defaults.sameReferenceCheck,
   function      |-> IF rec.function # "absent"
                     THEN rec.function ELSE defaults.function]

\* the mutation of C11: the record of a longer prefix is laid over the ones of
\* the shorter prefixes
RECURSIVE FindMerging(_, _, _, _)
FindMerging(optionsList, nameParts, index, found) ==
  IF index > Len(nameParts) THEN found
  ELSE FindMerging(optionsList, nameParts, index + 1,
                   IF Join(SubSeq(nameParts, 1, index)) \in DOMAIN optionsList
                   THEN Overlay(found,
                                optionsList[Join(SubSeq(nameParts, 1, index))])
                   ELSE found)

RECURSIVE FindLoop(_, _, _, _)
FindLoop(optionsList, nameParts, index, found) ==
  IF index > Len(nameParts) THEN found
  ELSE LET partialName == Join(SubSeq(nameParts, 1, index))
       IN  FindLoop(optionsList, nameParts, index + 1,
                    IF partialName \in DOMAIN optionsList
                    THEN optionsList[partialName] ELSE found)

_findOptionsByName(name, optionsList) ==
  Overlay(_defaultOptions, FindLoop(optionsList, Split(name), 1, EmptyRecord))

\* the mutation of C25: the record registered at name.b, a path below name,
\* is the one a write at name resolves
GetOptionsBelow(opts, name) ==
  IF (name \o <<"b">>) \in DOMAIN opts
  THEN Overlay(_defaultOptions, opts[name \o <<"b">>])
  ELSE LET kept == {optionName \in DOMAIN opts :
                      \/ Falsy(name)
                      \/ Falsy(optionName)
                      \/ _hasSubArray(Split(name), Split(optionName))}
       IN  _findOptionsByName(name, [n \in kept |-> opts[n]])

_getOptions(opts, name) ==
  LET kept == {optionName \in DOMAIN opts :
                 \/ Falsy(name)
                 \/ Falsy(optionName)
                 \/ _hasSubArray(Split(name), Split(optionName))}
  IN  _findOptionsByName(name, [n \in kept |-> opts[n]])

_getDefaultValue(opts, name) == _getOptions(opts, name).defaultValue

getDefaultValue(opts, name) == _getDefaultValue(opts, name)

----------------------------------------------------------------------------
(* _transformValue *)

\* Number(value), with NaN turned into 0 as lines 198-199 do
ToNumber(value) ==
  CASE value.t = "number"  -> value
    [] value.t = "boolean" -> Num(value.n)
    [] value.t = "null"    -> Num(0)
    [] value.t = "string"  -> IF value.n >= 0 THEN Num(value.n) ELSE Num(0)
    [] OTHER               -> Num(0)

_toBoolean(value) ==
  Bool(value # Undef /\ value # Null /\ value # Bool(FALSE))

\* What a call that raised leaves in place of its value.
Raised == V("raised", 0)

\* rule.function(value, oldValue, rule.defaultValue): the functions of the
\* model return their first, second or third argument or raise; calling a
\* function the record does not have raises a TypeError.
Apply(fn, value, oldValue, defaultValue) ==
  CASE fn = "value"   -> value
    [] fn = "old"     -> oldValue
    [] fn = "default" -> defaultValue
    [] OTHER          -> Raised

\* The switch of lines 193-216.
Coerce(value, oldValue, rule) ==
  CASE rule.type = "custom"  ->
         Apply(rule.function, value, oldValue, rule.defaultValue)
    [] rule.type = "number"  -> ToNumber(value)
    [] rule.type = "boolean" -> _toBoolean(value)
    [] OTHER                 -> value

\* Lines 218-222, coerced being the value after the switch.
Filtered(coerced, rule) ==
  IF /\ rule.allowedValues.present
     /\ \A allowedValue \in rule.allowedValues.values :
          ~StrictEq(coerced, allowedValue)
  THEN IF rule.defaultValue # Undef THEN rule.defaultValue ELSE Null
  ELSE coerced

\* The value returned, or Raised when the custom function raised (line 195 is
\* left by the exception and nothing after it runs).
Checked(coerced, rule) ==
  IF coerced = Raised THEN Raised ELSE Filtered(coerced, rule)

_transformValue(value, oldValue, rule) ==
  Checked(Coerce(value, oldValue, rule), rule)

----------------------------------------------------------------------------
(* The options argument of set and triggerSubscriptionCallbacks: given is
   FALSE for undefined; a key the object does not have reads Undef; tag is
   any further property ({ b: true } in the tests). *)

CallOptions(defaultValue, triggerSubscriptionCallback, tag) ==
  [given |-> TRUE, defaultValue |-> defaultValue,
   triggerSubscriptionCallback |-> triggerSubscriptionCallback, tag |-> tag]

NoOptions    == CallOptions(Undef, Undef, Undef)       \* {}
UndefOptions == [NoOptions EXCEPT !.given = FALSE]     \* undefined

----------------------------------------------------------------------------
(* Subscriptions *)

Hole == [id |-> 0, name |-> NoName]     \* delete this._subscriptions[index]

\* What a callback does when it is invoked: a spy records its arguments and
\* touches nothing; the others also call handle.unsubscribe() on the handle of
\* subscribe call id, state.subscribe(name, spy) or state.set(name, value).
Spy == [do |-> "spy", id |-> 0, name |-> NoName, value |-> Undef]
Unsubscribes(id)  == [Spy EXCEPT !.do = "unsubscribe", !.id = id]
Subscribes(name)  == [Spy EXCEPT !.do = "subscribe", !.name = name]
Sets(name, value) == [Spy EXCEPT !.do = "set", !.name = name, !.value = value]

Acting(id, name, callback) == [id |-> id, name |-> name, callback |-> callback]

Subscription(id, name) == Acting(id, name, Spy)

RECURSIVE PushAll(_, _, _)
PushAll(sb, id, names) ==
  IF names = <<>> THEN sb
  ELSE PushAll(Append(sb, Subscription(id, Head(names))), id, Tail(names))

\* subscribe(name, callback): names is the array, or the one name
subscribe(sb, id, names) == PushAll(sb, id, names)

\* the mutation of C9: only the first entry of the id is deleted
UnsubscribeFirst(sb, id) ==
  [index \in DOMAIN sb |->
     IF /\ sb[index] # Hole
        /\ sb[index].id = id
        /\ \A before \in 1 .. (index - 1) : sb[before].id # id
     THEN Hole ELSE sb[index]]

_unsubscribe(sb, id) ==
  [index \in DOMAIN sb |->
     IF sb[index] # Hole /\ sb[index].id = id THEN Hole ELSE sb[index]]

\* the mutation of C10: the entries at and under name are deleted
UnsubscribeUnder(sb, name) ==
  [index \in DOMAIN sb |->
     IF /\ sb[index] # Hole
        /\ Len(name) <= Len(sb[index].name)
        /\ SubSeq(sb[index].name, 1, Len(name)) = name
     THEN Hole ELSE sb[index]]

unsubscribeAll(sb, name) ==
  [index \in DOMAIN sb |->
     IF sb[index] # Hole /\ sb[index].name = name THEN Hole ELSE sb[index]]

\* the mutation of C3: the flattened keys of the patch are not looked at
MatchesByName(name, modifiedKeys, subscription) ==
  \/ Falsy(name)
  \/ Falsy(subscription.name)
  \/ _hasSubArray(Split(name), Split(subscription.name))

\* the mutation of C5: only the flattened keys of the patch are looked at
MatchesByKey(name, modifiedKeys, subscription) ==
  \/ Falsy(name)
  \/ Falsy(subscription.name)
  \/ \E k \in DOMAIN modifiedKeys : modifiedKeys[k].key = subscription.name

\* the mutation of C16: the subscription's name is compared with the name
MatchesExactly(name, modifiedKeys, subscription) ==
  \/ Falsy(name)
  \/ Falsy(subscription.name)
  \/ subscription.name = name

\* the condition of line 135
Matches(name, modifiedKeys, subscription) ==
  \/ Falsy(name)
  \/ Falsy(subscription.name)
  \/ _hasSubArray(Split(name), Split(subscription.name))
  \/ \E k \in DOMAIN modifiedKeys : modifiedKeys[k].key = subscription.name

RECURSIVE ForEachSubscription(_, _, _, _, _, _)
ForEachSubscription(h, sb, index, name, modifiedKeys, opts) ==
  IF index > Len(sb) THEN <<>>
  ELSE (IF sb[index] # Hole /\ Matches(name, modifiedKeys, sb[index])
        THEN << [sub     |-> index,
                 value   |-> _get(h, sb[index].name, Obj(Root)),
                 name    |-> sb[index].name,
                 options |-> opts] >>
        ELSE <<>>)
       \o ForEachSubscription(h, sb, index + 1, name, modifiedKeys, opts)

\* the mutation of C17: the list is walked from its end
LastFirst(h, sb, name, modifiedData, opts) ==
  [k \in 1 .. Len(ForEachSubscription(h, sb, 1, name,
                     _objectToDotNotation(h, modifiedData, <<>>), opts)) |->
     ForEachSubscription(h, sb, 1, name,
                         _objectToDotNotation(h, modifiedData, <<>>), opts)
       [Len(ForEachSubscription(h, sb, 1, name,
              _objectToDotNotation(h, modifiedData, <<>>), opts)) + 1 - k]]

\* The invocations of one dispatch pass, in order.  The callbacks are spies:
\* they record their arguments and touch nothing.
_triggerSubscriptionCallbacks(h, sb, name, modifiedData, opts) ==
  ForEachSubscription(h, sb, 1, name,
                      _objectToDotNotation(h, modifiedData, <<>>), opts)

----------------------------------------------------------------------------
(* setOptions, set, _setMultiple on st = [heap, options].  Each step of set
   is an operator over what the steps before it computed. *)

SetKey(f, k, v) == [x \in DOMAIN f \cup {k} |-> IF x = k THEN v ELSE f[x]]

\* the mutation of C1: the patch replaces the tree
Replaced(modifiedData) ==
  [modifiedData.heap EXCEPT ![Root] = modifiedData.heap[modifiedData.ref.n]]

\* this._data = deepMerge(this._data, modifiedData): the heap afterwards
Merged(modifiedData) ==
  deepMerge(modifiedData.heap, Obj(Root), modifiedData.ref)

\* the mutation of C12: a default is merged only when it is truthy
SetOptionsTruthy(st, name, rec) ==
  [heap    |-> IF Truthy(rec.defaultValue) /\ get(st.heap, name) = Undef
               THEN Merged(ModifiedData(st.heap, name, rec.defaultValue))
               ELSE st.heap,
   options |-> SetKey(st.options, name, rec)]

setOptions(st, name, rec) ==
  [heap    |-> IF /\ rec.defaultValue # Absent
                  /\ rec.defaultValue # Undef
                  /\ get(st.heap, name) = Undef
               THEN Merged(ModifiedData(st.heap, name, rec.defaultValue))
               ELSE st.heap,
   options |-> SetKey(st.options, name, rec)]

\* the mutation of C6: the check never finds the value in place
NeverSame(sameReferenceCheck, h, name, modifiedData) == FALSE

\* the mutation of C7: the stored value is compared with the patch
SameAsPatch(sameReferenceCheck, h, name, modifiedData) ==
  /\ Truthy(sameReferenceCheck)
  /\ StrictEq(_get(h, name, Obj(Root)), modifiedData)

\* The condition of line 44.
SameReference(sameReferenceCheck, h, name, modifiedData) ==
  /\ Truthy(sameReferenceCheck)
  /\ StrictEq(_get(h, name, Obj(Root)), _get(h, name, modifiedData))

\* the mutation of C15: the option is not looked at
DispatchAlways(opts) == TRUE

\* The condition of line 48.
DispatchEnabled(opts) ==
  \/ opts.triggerSubscriptionCallback = Undef
  \/ Truthy(opts.triggerSubscriptionCallback)

\* the mutation of C20: the inline default is added to the record name has
SeededKeeping(st, name, opts) ==
  IF opts.defaultValue # Undef
  THEN setOptions(st, name,
                  IF name \in DOMAIN st.options
                  THEN [st.options[name] EXCEPT
                          !.defaultValue = opts.defaultValue]
                  ELSE Record(opts.defaultValue, "absent", NoAllowed, Absent))
  ELSE [heap |-> st.heap, options |-> st.options]

\* Lines 28-30: the store once the inline default is registered.
Seeded(st, name, opts) ==
  IF opts.defaultValue # Undef
  THEN setOptions(st, name,
                  Record(opts.defaultValue, "absent", NoAllowed, Absent))
  ELSE [heap |-> st.heap, options |-> st.options]

\* Lines 48-52, h being the merged tree: the store, the invocations, the
\* value returned, oldValue and whether line 46 was reached.
Dispatched(h, o, sb, name, opts, oldValue, value, modifiedData) ==
  [heap |-> h, options |-> o,
   calls |-> IF DispatchEnabled(opts)
             THEN _triggerSubscriptionCallbacks(h, sb, name, modifiedData, opts)
             ELSE <<>>,
   value |-> value, old |-> oldValue, wrote |-> TRUE]

\* Lines 44-46.
Written(o, sb, name, opts, sameReferenceCheck, oldValue, value, modifiedData) ==
  IF SameReference(sameReferenceCheck, modifiedData.heap, name,
                   modifiedData.ref)
  THEN [heap |-> modifiedData.heap, options |-> o, calls |-> <<>>,
        value |-> value, old |-> oldValue, wrote |-> FALSE]
  ELSE Dispatched(Merged(modifiedData), o, sb, name, opts, oldValue, value,
                  modifiedData.ref)

\* The exception of line 39 leaves set: nothing is returned, the store is the
\* one lines 28-30 left.
Thrown(st, oldValue) ==
  [heap |-> st.heap, options |-> st.options, calls |-> <<>>,
   value |-> Absent, old |-> oldValue, wrote |-> FALSE]

\* the mutation of C19: what the transform left is written whatever it is
PatchedWhatever(st, sb, name, opts, stateOptions, oldValue, value) ==
  Written(st.options, sb, name, opts, stateOptions.sameReferenceCheck,
          oldValue, value, ModifiedData(st.heap, name, value))

\* Lines 39-42, value being the transformed value.
Patched(st, sb, name, opts, stateOptions, oldValue, value) ==
  IF value = Raised
  THEN Thrown(st, oldValue)
  ELSE Written(st.options, sb, name, opts, stateOptions.sameReferenceCheck,
               oldValue, value, ModifiedData(st.heap, name, value))

\* Line 39.
Transformed(st, sb, name, value, opts, stateOptions, oldValue) ==
  Patched(st, sb, name, opts, stateOptions, oldValue,
          _transformValue(value, oldValue, stateOptions))

\* Lines 32-33.
Resolved(st, sb, name, value, opts) ==
  Transformed(st, sb, name, value, opts, _getOptions(st.options, name),
              _get(st.heap, name, Obj(Root)))

\* set(name, value, options) for a string name.
set(st, sb, name, value, opts) ==
  Resolved(Seeded(st, name, opts), sb, name, value, opts)

\* the mutation of C8: the per-key writes keep their dispatch
PerWriteOptionsKept(opts) == [opts EXCEPT !.given = TRUE]

\* { ...options, triggerSubscriptionCallback: false }
PerWriteOptions(opts) ==
  [opts EXCEPT !.given = TRUE, !.triggerSubscriptionCallback = Bool(FALSE)]

\* One element of the map of line 101: the store after the write, its result
\* added to the results and its invocations to the invocations.
Mapped(acc, name, one) ==
  [heap |-> one.heap, options |-> one.options,
   results |-> Append(acc.results, [name |-> name, value |-> one.value]),
   calls |-> acc.calls \o one.calls]

\* Object.keys(list).map(name => this.set(name, list[name], {...})), list
\* being <<[name, value], ...>>
RECURSIVE MapSet(_, _, _, _)
MapSet(acc, sb, list, opts) ==
  IF list = <<>> THEN acc
  ELSE MapSet(Mapped(acc, Head(list).name,
                     set(acc, sb, Head(list).name, Head(list).value,
                         PerWriteOptions(opts))),
              sb, Tail(list), opts)

\* Line 105: this._triggerSubscriptionCallbacks()
FinalPass(written, sb) ==
  [written EXCEPT !.calls = @ \o
     _triggerSubscriptionCallbacks(written.heap, sb, NoName, Undef,
                                   UndefOptions)]

_setMultiple(st, sb, list, opts) ==
  FinalPass(MapSet([heap |-> st.heap, options |-> st.options,
                    results |-> <<>>, calls |-> <<>>], sb, list, opts), sb)

\* _setDefaults: setOptions for every flattened entry of the defaults
RECURSIVE SetDefaultEntries(_, _)
SetDefaultEntries(st, entries) ==
  IF entries = <<>> THEN st
  ELSE SetDefaultEntries(
         setOptions(st, Head(entries).key,
                    Record(Head(entries).value, "absent", NoAllowed, Absent)),
         Tail(entries))

_setDefaults(st, defaults) ==
  SetDefaultEntries(st, _objectToDotNotation(st.heap, defaults, <<>>))

----------------------------------------------------------------------------
(* set and its dispatch when the callbacks call back into the store.  w is
   the store while the call runs: heap, options, subs, nextId, the history
   cancelled and the invocations made so far, each with the depth of the set
   that dispatched it (0 for the caller's). *)

\* the nesting of set calls the model follows
MaxDepth == 3

RECURSIVE ActiveSet(_, _, _, _, _)
RECURSIVE ActivePass(_, _, _, _, _, _, _)
RECURSIVE PassToTheEnd(_, _, _, _, _, _, _)

\* the arguments of line 136, and the entries in the list at that moment
Invocation(w, index, opts, depth) ==
  [sub     |-> index,
   value   |-> _get(w.heap, w.subs[index].name, Obj(Root)),
   name    |-> w.subs[index].name,
   options |-> opts,
   depth   |-> depth,
   live    |-> {i \in DOMAIN w.subs : w.subs[i] # Hole}]

\* the entries of sb that handle id names
NamedIn(sb, id) ==
  {[sub |-> i, name |-> sb[i].name] :
     i \in {j \in DOMAIN sb : sb[j] # Hole /\ sb[j].id = id}}

\* The callback runs.  A set nested deeper than MaxDepth is not followed.
Acted(w, callback, depth) ==
  CASE callback.do = "unsubscribe" ->
         [w EXCEPT !.subs = _unsubscribe(@, callback.id),
                   !.cancelled = @ \cup NamedIn(w.subs, callback.id)]
    [] callback.do = "subscribe" ->
         [w EXCEPT !.subs = subscribe(@, w.nextId, <<callback.name>>),
                   !.nextId = @ + 1]
    [] callback.do = "set" ->
         IF depth >= MaxDepth THEN w
         ELSE ActiveSet(w, callback.name, callback.value, NoOptions, depth + 1)
    [] OTHER -> w

\* Line 136 for the entry at index.
Called(w, index, opts, depth) ==
  Acted([w EXCEPT !.calls = Append(@, Invocation(w, index, opts, depth))],
        w.subs[index].callback, depth)

\* the mutation of C23: the length of the list is read again at every entry
PassToTheEnd(w, index, len, name, modifiedKeys, opts, depth) ==
  IF index > Len(w.subs) THEN w
  ELSE PassToTheEnd(IF /\ w.subs[index] # Hole
                       /\ Matches(name, modifiedKeys, w.subs[index])
                    THEN Called(w, index, opts, depth)
                    ELSE w,
                    index + 1, len, name, modifiedKeys, opts, depth)

\* Lines 134-138: forEach visits the indices below the length the list had
\* when it started, and skips an index whose entry is deleted by then.
ActivePass(w, index, len, name, modifiedKeys, opts, depth) ==
  IF index > len THEN w
  ELSE ActivePass(IF /\ w.subs[index] # Hole
                     /\ Matches(name, modifiedKeys, w.subs[index])
                  THEN Called(w, index, opts, depth)
                  ELSE w,
                  index + 1, len, name, modifiedKeys, opts, depth)

\* Lines 48-52, w holding the merged tree.
ActiveDispatched(w, name, opts, depth, modifiedData) ==
  IF DispatchEnabled(opts)
  THEN ActivePass(w, 1, Len(w.subs), name,
                  _objectToDotNotation(w.heap, modifiedData, <<>>), opts, depth)
  ELSE w

\* Lines 44-46.
ActiveWritten(w, o, name, opts, depth, sameReferenceCheck, modifiedData) ==
  IF SameReference(sameReferenceCheck, modifiedData.heap, name,
                   modifiedData.ref)
  THEN [w EXCEPT !.heap = modifiedData.heap, !.options = o]
  ELSE ActiveDispatched([w EXCEPT !.heap = Merged(modifiedData),
                                  !.options = o],
                        name, opts, depth, modifiedData.ref)

\* Lines 39-42, value being the transformed value.
ActivePatched(w, st, name, opts, depth, sameReferenceCheck, value) ==
  IF value = Raised
  THEN [w EXCEPT !.heap = st.heap, !.options = st.options]
  ELSE ActiveWritten(w, st.options, name, opts, depth, sameReferenceCheck,
                     ModifiedData(st.heap, name, value))

\* Lines 32-39, st being the store lines 28-30 left.
ActiveResolved(w, st, name, value, opts, depth) ==
  ActivePatched(w, st, name, opts, depth,
                _getOptions(st.options, name).sameReferenceCheck,
                _transformValue(value, _get(st.heap, name, Obj(Root)),
                                _getOptions(st.options, name)))

\* set(name, value, options) for a string name, at nesting depth.
ActiveSet(w, name, value, opts, depth) ==
  ActiveResolved(w, Seeded([heap |-> w.heap, options |-> w.options], name,
                           opts),
                 name, value, opts, depth)

----------------------------------------------------------------------------
(* Objects nothing refers to any more are dropped and the addresses of the
   others closed up, as a collector may: no operation of the class can tell.
   What can refer to an object: the tree, a record's defaultValue, the
   arguments and results of the last call (the caller may still hold them)
   and the arguments the callbacks recorded. *)

Addresses(values) == {v.n : v \in {w \in values : w.t = "object"}}

RECURSIVE Reachable(_, _)
Reachable(h, from) ==
  LET more == from \cup Addresses({h[a][k] : a \in from, k \in AllKeys})
  IN  IF more = from THEN from ELSE Reachable(h, more)

Held(o, cl, lst) ==
  {o[n].defaultValue : n \in DOMAIN o}
    \cup UNION {o[n].allowedValues.values : n \in DOMAIN o}
    \cup {cl[i].value : i \in DOMAIN cl}
    \cup {cl[i].options.defaultValue : i \in DOMAIN cl}
    \cup {lst.value, lst.old, lst.opts.defaultValue}
    \cup {lst.list[i].value : i \in DOMAIN lst.list}
    \cup {lst.results[i].value : i \in DOMAIN lst.results}

\* The call that just returned: its name and arguments (same: the value is
\* the object the call before was given), what it returned, oldValue (line
\* 33), whether it reached the merge of line 46, and the handle's id.
Call(op, name, value, opts, list, results, old, wrote, same, id) ==
  [op |-> op, name |-> name, value |-> value, opts |-> opts, list |-> list,
   results |-> results, old |-> old, wrote |-> wrote, same |-> same, id |-> id]

Moved(v, live) ==
  IF v.t = "object" THEN Obj(Cardinality({b \in live : b <= v.n})) ELSE v

MovedOptions(co, live) == [co EXCEPT !.defaultValue = Moved(@, live)]

MovedPairs(list, live) ==
  [i \in DOMAIN list |-> [list[i] EXCEPT !.value = Moved(@, live)]]

\* The store, the recorded invocations and the call record with only the
\* objects of live, in the order of their addresses.
Compacted(h, o, cl, lst, live) ==
  [heap    |-> [i \in 1 .. Cardinality(live) |->
                  LET a == CHOOSE b \in live :
                             Cardinality({c \in live : c <= b}) = i
                  IN  [k \in AllKeys |-> Moved(h[a][k], live)]],
   options |-> [n \in DOMAIN o |->
                  [o[n] EXCEPT
                     !.defaultValue = Moved(@, live),
                     !.allowedValues.values = {Moved(v, live) : v \in @}]],
   calls   |-> [i \in DOMAIN cl |->
                  [cl[i] EXCEPT !.value = Moved(@, live),
                                !.options = MovedOptions(@, live)]],
   last    |-> [lst EXCEPT !.value = Moved(@, live),
                           !.old = Moved(@, live),
                           !.opts = MovedOptions(@, live),
                           !.list = MovedPairs(@, live),
                           !.results = MovedPairs(@, live)]]

Collected(h, o, cl, lst) ==
  Compacted(h, o, cl, lst,
            Reachable(h, {Root} \cup Addresses(Held(o, cl, lst))))

\* The next state is the collected store c.
Becomes(c, sb, nid, can, pur) ==
  /\ heap' = c.heap
  /\ options' = c.options
  /\ subs' = sb
  /\ nextId' = nid
  /\ cancelled' = can
  /\ purged' = pur
  /\ calls' = c.calls
  /\ last' = c.last

\* The next state, after a call that leaves the store as (h, o, sb).
Return(h, o, sb, nid, can, pur, cl, lst) ==
  Becomes(Collected(h, o, cl, lst), sb, nid, can, pur)

----------------------------------------------------------------------------
(* The public calls.  A value argument is a primitive or an object the caller
   already holds (v), or an object literal evaluated for this call (obj). *)

Given(v)     == [lit |-> FALSE, v |-> v, obj |-> EmptyObject]
Literal(obj) == [lit |-> TRUE, v |-> Undef, obj |-> obj]

Materialize(h, arg) ==
  IF arg.lit THEN Alloc(h, arg.obj) ELSE [heap |-> h, ref |-> arg.v]

NoCall ==
  Call("new", NoName, Undef, UndefOptions, <<>>, <<>>, Undef, FALSE, FALSE, 0)

\* The caller's default structure is the object at DefaultsAt of h0, the
\* heap after line 8.
DefaultsAt == 2

Starts(st) ==
  /\ heap = st.heap
  /\ options = st.options
  /\ subs = <<>>
  /\ nextId = 1
  /\ cancelled = {}
  /\ purged = {}
  /\ calls = <<>>
  /\ last = NoCall

HandedOver(st) == Collected(st.heap, st.options, <<>>, NoCall)

\* new State(defaults)
Constructed(h0) ==
  HandedOver(_setDefaults([heap |-> h0, options |-> [n \in {} |-> EmptyRecord]],
                          Obj(DefaultsAt)))

InitFrom(defaultHeaps) == \E h0 \in defaultHeaps : Starts(Constructed(h0))

\* const state = new State(defaults), the caller keeping defaults
NewCall ==
  Call("new", NoName, Obj(DefaultsAt), UndefOptions, <<>>, <<>>, Undef, FALSE,
       FALSE, 0)

Kept(st) == Collected(st.heap, st.options, <<>>, NewCall)

ConstructedKeeping(h0) ==
  Kept(_setDefaults([heap |-> h0, options |-> [n \in {} |-> EmptyRecord]],
                    Obj(DefaultsAt)))

StartsKeeping(c) ==
  /\ heap = c.heap
  /\ options = c.options
  /\ subs = <<>>
  /\ nextId = 1
  /\ cancelled = {}
  /\ purged = {}
  /\ calls = <<>>
  /\ last = c.last

InitKeeping(defaultHeaps) ==
  \E h0 \in defaultHeaps : StartsKeeping(ConstructedKeeping(h0))

SetReturn(r, name, value, opts, same) ==
  Return(r.heap, r.options, subs, nextId, cancelled, purged, r.calls,
         Call("set", name, value, opts, <<>>,
              << [name |-> name, value |-> r.value] >>, r.old, r.wrote,
              same, 0))

\* state.set(name, value, options), made being the heap and the value
SetCall(made, name, opts, same) ==
  SetReturn(set([heap |-> made.heap, options |-> options], subs, name,
                made.ref, opts),
            name, made.ref, opts, same)

Set(name, arg, opts) == SetCall(Materialize(heap, arg), name, opts, FALSE)

\* state.set(name, value) once more, with the object the call before passed
SetAgain ==
  /\ last.op = "set"
  /\ last.value.t = "object"
  /\ SetCall([heap |-> heap, ref |-> last.value], last.name, NoOptions, TRUE)

\* state.set(name, value) with the object the call before passed, at
\* another name or the same
SetSame(name) ==
  /\ last.op = "set"
  /\ last.value.t = "object"
  /\ SetCall([heap |-> heap, ref |-> last.value], name, NoOptions, TRUE)

Listed(acc, name, made) ==
  [heap |-> made.heap,
   list |-> Append(acc.list, [name |-> name, value |-> made.ref])]

RECURSIVE MaterializeAll(_, _)
MaterializeAll(acc, batch) ==
  IF batch = <<>> THEN acc
  ELSE MaterializeAll(Listed(acc, Head(batch).name,
                             Materialize(acc.heap, Head(batch).arg)),
                      Tail(batch))

SetMultipleReturn(r, list, opts) ==
  Return(r.heap, r.options, subs, nextId, cancelled, purged, r.calls,
         Call("setMultiple", NoName, Undef, opts, list, r.results, Undef,
              FALSE, FALSE, 0))

SetMultipleCall(made, opts) ==
  SetMultipleReturn(_setMultiple([heap |-> made.heap, options |-> options],
                                 subs, made.list, opts),
                    made.list, opts)

\* state.set(list, options): line 25 hands options to _setMultiple
SetMultiple(batch, opts) ==
  SetMultipleCall(MaterializeAll([heap |-> heap, list |-> <<>>], batch), opts)

\* wrote: the call reached the merge of line 60
SetOptionsReturn(st, name) ==
  Return(st.heap, st.options, subs, nextId, cancelled, purged, <<>>,
         Call("setOptions", name, Undef, UndefOptions, <<>>, <<>>, Undef,
              st.heap # heap, FALSE, 0))

\* state.setOptions(name, record)
SetOptions(name, rec) ==
  SetOptionsReturn(setOptions([heap |-> heap, options |-> options], name, rec),
                   name)

SetOptionsMade(made, st, name) ==
  Return(st.heap, st.options, subs, nextId, cancelled, purged, <<>>,
         Call("setOptions", name, Undef, UndefOptions, <<>>, <<>>, Undef,
              st.heap # made.heap, FALSE, 0))

SetOptionsCall(made, name) ==
  SetOptionsMade(made,
                 setOptions([heap |-> made.heap, options |-> options], name,
                            Record(made.ref, "absent", NoAllowed, Absent)),
                 name)

\* state.setOptions(name, { defaultValue: obj }), obj an object literal
SetOptionsDefault(name, obj) == SetOptionsCall(Alloc(heap, obj), name)

\* subscribe calls a run makes
MaxSubscribes == 2

\* state.subscribe(names, spy): names is <<name>> for a single name
Subscribe(names) ==
  /\ nextId <= MaxSubscribes
  /\ Return(heap, options, subscribe(subs, nextId, names), nextId + 1,
            cancelled, purged, <<>>,
            Call("subscribe", NoName, Undef, UndefOptions,
                 [i \in DOMAIN names |-> [name |-> names[i], value |-> Undef]],
                 <<>>, Undef, FALSE, FALSE, nextId))

Named(indices) == {[sub |-> i, name |-> subs[i].name] : i \in indices}

\* handle.unsubscribe(), the handle being the one subscribe call id returned
Unsubscribe(id) ==
  Return(heap, options, _unsubscribe(subs, id), nextId,
         cancelled \cup
           Named({i \in DOMAIN subs : subs[i] # Hole /\ subs[i].id = id}),
         purged, <<>>,
         Call("unsubscribe", NoName, Undef, UndefOptions, <<>>, <<>>, Undef,
              FALSE, FALSE, id))

\* state.unsubscribeAll(name)
UnsubscribeAll(name) ==
  Return(heap, options, unsubscribeAll(subs, name), nextId, cancelled,
         purged \cup
           Named({i \in DOMAIN subs : subs[i] # Hole /\ subs[i].name = name}),
         <<>>,
         Call("unsubscribeAll", name, Undef, UndefOptions, <<>>, <<>>, Undef,
              FALSE, FALSE, 0))

\* state.triggerSubscriptionCallbacks(name, options)
Trigger(name, opts) ==
  Return(heap, options, subs, nextId, cancelled, purged,
         _triggerSubscriptionCallbacks(heap, subs, name, Bool(FALSE), opts),
         Call("trigger", name, Undef, opts, <<>>, <<>>, Undef, FALSE, FALSE, 0))

\* subscriptions the callbacks of a run add
MaxAdded == 2

ReentrantSetReturn(w, name, value) ==
  /\ w.nextId <= MaxSubscribes + MaxAdded + 1
  /\ Return(w.heap, w.options, w.subs, w.nextId, w.cancelled, purged, w.calls,
            Call("set", name, value, NoOptions, <<>>, <<>>, Undef, FALSE,
                 FALSE, 0))

ReentrantSetCall(made, name) ==
  ReentrantSetReturn(ActiveSet([heap |-> made.heap, options |-> options,
                                subs |-> subs, nextId |-> nextId,
                                cancelled |-> cancelled, calls |-> <<>>],
                               name, made.ref, NoOptions, 0),
                     name, made.ref)

\* state.set(name, value) where callbacks may call back into the store
ReentrantSet(name, arg) == ReentrantSetCall(Materialize(heap, arg), name)

\* state.subscribe(name, callback) with a callback that acts
SubscribeActing(name, callback) ==
  /\ nextId <= MaxSubscribes
  /\ Return(heap, options, Append(subs, Acting(nextId, name, callback)),
            nextId + 1, cancelled, purged, <<>>,
            Call("subscribe", NoName, Undef, UndefOptions,
                 << [name |-> name, value |-> Undef] >>, <<>>, Undef, FALSE,
                 FALSE, nextId))

----------------------------------------------------------------------------
(* The arguments the callers pass *)

NoDispatch == CallOptions(Undef, Bool(FALSE), Undef)  \* { triggerSubscriptionCallback: false }
InlineDefault == CallOptions(Num(1), Undef, Undef)    \* { defaultValue: 1 }
Tagged == CallOptions(Undef, Undef, Bool(TRUE))       \* { b: true }

NoDefaults == { <<EmptyObject, EmptyObject>> }                            \* {}

ObjectB2 == [EmptyObject EXCEPT !["b"] = Num(2)]                         \* { b: 2 }

\* The default structures: the heap after line 8 with the structure at
\* DefaultsAt and its mappings after it.
SomeDefaults ==
  { <<EmptyObject, EmptyObject>>,                                        \* {}
    <<EmptyObject, [EmptyObject EXCEPT !["a"] = Bool(TRUE)]>>,            \* { a: true }
    <<EmptyObject, [EmptyObject EXCEPT !["a"] = Obj(3)], ObjectB2>>,      \* { a: { b: 2 } }
    <<EmptyObject, [EmptyObject EXCEPT !["a"] = Obj(3), !["b"] = Num(0)],
      [EmptyObject EXCEPT !["a"] = Null]>>,                               \* { a: { a: null }, b: 0 }
    <<EmptyObject, [EmptyObject EXCEPT !["a"] = Obj(3)], EmptyObject>> }  \* { a: {} }

SubscribeArgs ==
  { <<EmptyName>>, << <<"a">> >>, << <<"b">> >>, << <<"a", "b">> >>,
    << <<"a">>, <<"b">> >> }                                \* ['a', 'b']

BatchAB ==
  << [name |-> <<"a">>, arg |-> Given(Num(1))],
     [name |-> <<"b">>, arg |-> Given(Num(1))] >>           \* { a: 1, b: 1 }

SameReferenceOff == Record(Absent, "absent", NoAllowed, Bool(FALSE))
TypeBoolean      == Record(Absent, "boolean", NoAllowed, Absent)
OnlyOne          == Record(Absent, "absent", Allowed({Num(1)}), Absent)

DefaultZero  == Record(Num(0), "absent", NoAllowed, Absent)         \* { defaultValue: 0 }
OneOrTwo     == Record(Num(2), "absent", Allowed({Num(1)}), Absent) \* { allowedValues: [1], defaultValue: 2 }
OnlyTrue     == Record(Absent, "boolean", Allowed({Bool(TRUE)}), Absent) \* { type: 'boolean', allowedValues: [true] }
AllowNothing == Record(Absent, "absent", Allowed({}), Absent)       \* { allowedValues: [] }

Raising      == Custom("raise", Absent)   \* { type: 'custom', function() { throw ... } }
FirstArgument == Custom("value", Absent)  \* { type: 'custom', function: value => value }

OptionNames   == {<<"a">>, <<"a", "b">>}
OptionRecords == {DefaultZero, OneOrTwo, OnlyTrue, AllowNothing}

----------------------------------------------------------------------------
(* Spec: callers that write, subscribe and trigger, and never unsubscribe *)

Init == InitFrom(NoDefaults)

Next ==
  \/ \E name \in {<<"a">>, <<"a", "b">>},
        arg \in {Given(Num(1)), Literal(ObjectB2)},
        opts \in {NoOptions, NoDispatch} :
       Set(name, arg, opts)
  \/ SetAgain
  \/ SetMultiple(BatchAB, NoOptions)
  \/ SetOptions(<<"a">>, SameReferenceOff)
  \/ \E names \in SubscribeArgs : Subscribe(names)
  \/ \E name \in {NoName, <<"a", "b">>} : Trigger(name, UndefOptions)

Spec == Init /\ [][Next]_vars

----------------------------------------------------------------------------
(* UnsubSpec: callers that subscribe and unsubscribe, with plain writes *)

UnsubNext ==
  \/ \E name \in {<<"a">>, <<"a", "b">>} : Set(name, Given(Num(1)), NoOptions)
  \/ SetMultiple(BatchAB, NoOptions)
  \/ \E names \in SubscribeArgs : Subscribe(names)
  \/ \E id \in 1 .. (nextId - 1) : Unsubscribe(id)
  \/ \E name \in {<<"a">>, <<"a", "b">>} : UnsubscribeAll(name)
  \/ Trigger(NoName, UndefOptions)

UnsubSpec == Init /\ [][UnsubNext]_vars

----------------------------------------------------------------------------
(* StoreSpec: callers that write and register records, with no subscriber *)

StoreNext ==
  \/ \E name \in {EmptyName, <<"a">>, <<"a", "b">>},
        arg \in {Given(Num(1)), Literal(EmptyObject), Literal(ObjectB2)} :
       Set(name, arg, NoOptions)
  \/ \E arg \in {Given(Num(1)), Literal(ObjectB2)} :
       Set(<<"a">>, arg, InlineDefault)
  \/ SetAgain
  \/ \E rec \in {TypeBoolean, OnlyOne} : SetOptions(<<"a">>, rec)

StoreSpec == Init /\ [][StoreNext]_vars

----------------------------------------------------------------------------
(* OptionsSpec: callers that register records at a path and below it and
   write plain values *)

OptionsNext ==
  \/ \E name \in OptionNames, rec \in OptionRecords : SetOptions(name, rec)
  \/ \E name \in OptionNames, v \in {Num(1), Bool(FALSE)} :
       Set(name, Given(v), NoOptions)

OptionsSpec == Init /\ [][OptionsNext]_vars

----------------------------------------------------------------------------
(* DefaultsSpec: callers that construct the store from a default structure
   and write *)

DefaultsInit == InitKeeping(SomeDefaults)

DefaultsNext ==
  \/ \E name \in {<<"a">>, <<"a", "b">>},
        arg \in {Given(Num(1)), Literal(ObjectB2)} :
       Set(name, arg, NoOptions)
  \/ SetAgain

DefaultsSpec == DefaultsInit /\ [][DefaultsNext]_vars

----------------------------------------------------------------------------
(* PassSpec: callers that hand an options object to the calls that dispatch *)

PassNext ==
  \/ \E name \in {<<"a">>, <<"a", "b">>}, v \in {Num(1), Num(2)} :
       Set(name, Given(v), Tagged)
  \/ SetMultiple(BatchAB, Tagged)
  \/ \E names \in {<<EmptyName>>, << <<"a">> >>} : Subscribe(names)
  \/ \E name \in {NoName, <<"a">>} : Trigger(name, Tagged)

PassSpec == Init /\ [][PassNext]_vars

----------------------------------------------------------------------------
(* SugarSpec: callers that register typed records and write with and without
   an inline default, with subscribers *)

SugarNext ==
  \/ \E rec \in {Raising, FirstArgument, TypeBoolean} : SetOptions(<<"a">>, rec)
  \/ \E name \in OptionNames, v \in {Num(1), Num(2)},
        opts \in {NoOptions, InlineDefault} :
       Set(name, Given(v), opts)
  \/ \E names \in {<< <<"a">> >>, << <<"a", "b">> >>} : Subscribe(names)

SugarSpec == Init /\ [][SugarNext]_vars

----------------------------------------------------------------------------
(* AliasSpec: callers that write an object they hold at more than one path *)

AliasNext ==
  \/ \E name \in {<<"a">>, <<"b">>, <<"a", "b">>},
        arg \in {Given(Num(1)), Literal(EmptyObject)} :
       Set(name, arg, NoOptions)
  \/ \E name \in {<<"a">>, <<"b">>} : SetSame(name)

AliasSpec == Init /\ [][AliasNext]_vars

----------------------------------------------------------------------------
(* ReentrySpec: subscribers whose callbacks subscribe and unsubscribe *)

ReentryNext ==
  \/ \E names \in {<< <<"a">> >>, << <<"a">>, <<"b">> >>} : Subscribe(names)
  \/ \E callback \in {Subscribes(<<"a">>)}
                      \cup {Unsubscribes(id) : id \in 1 .. MaxSubscribes} :
       SubscribeActing(<<"a">>, callback)
  \/ \E name \in {<<"a">>, <<"b">>}, v \in {Num(1), Num(2)} :
       ReentrantSet(name, Given(v))

ReentrySpec == Init /\ [][ReentryNext]_vars

----------------------------------------------------------------------------
(* LoopSpec: one subscriber at 'a' whose callback writes a fixed scalar to
   'a', and spies *)

LoopNext ==
  \/ \E c \in {Num(1), NaN} :
       /\ \A i \in DOMAIN subs : subs[i].callback = Spy
       /\ SubscribeActing(<<"a">>, Sets(<<"a">>, c))
  \/ \E names \in {<< <<"a">> >>, <<EmptyName>>} : Subscribe(names)
  \/ \E name \in {<<"a">>, <<"a", "b">>}, v \in {Num(1), Num(2)} :
       ReentrantSet(name, Given(v))
  \/ SetOptions(<<"a">>, TypeBoolean)

LoopSpec == Init /\ [][LoopNext]_vars

----------------------------------------------------------------------------
(* SeedSpec: callers that write a value with the same value as the inline
   default and register defaults, with subscribers *)

SameDefault(v) == CallOptions(v, Undef, Undef)          \* { defaultValue: v }

SeedNext ==
  \/ \E name \in OptionNames, v \in {Num(1), NaN} :
       Set(name, Given(v), SameDefault(v))
  \/ \E name \in OptionNames, rec \in {DefaultZero, TypeBoolean} :
       SetOptions(name, rec)
  \/ \E names \in {<< <<"a">> >>, << <<"a", "b">> >>} : Subscribe(names)

SeedSpec == Init /\ [][SeedNext]_vars

----------------------------------------------------------------------------
(* NestedSpec: callers that register records below a path and write
   mappings at the path *)

BatchA == << [name |-> <<"a">>, arg |-> Literal(ObjectB2)] >>    \* { a: { b: 2 } }

NestedArgs == {Literal(ObjectB2), Literal(EmptyObject), Given(Num(2))}
NestedRecords == {TypeBoolean, OnlyOne, OnlyTrue, OneOrTwo}

NestedNext ==
  \/ \E rec \in NestedRecords : SetOptions(<<"a", "b">>, rec)
  \/ SetOptions(<<"a">>, TypeBoolean)
  \/ \E arg \in NestedArgs : Set(<<"a">>, arg, NoOptions)
  \/ Set(<<"a", "b">>, Given(Num(2)), NoOptions)
  \/ SetMultiple(BatchA, NoOptions)

NestedSpec == Init /\ [][NestedNext]_vars

----------------------------------------------------------------------------
(* RecordSpec: callers that register defaults, mappings among them, and
   write at the paths and beneath them *)

RecordNames == {<<"a">>, <<"a", "b">>}

RecordNext ==
  \/ \E obj \in {ObjectB2, EmptyObject} : SetOptionsDefault(<<"a">>, obj)
  \/ SetOptions(<<"a", "b">>, DefaultZero)
  \/ \E name \in RecordNames, arg \in {Given(Num(1)), Literal(EmptyObject)} :
       Set(name, arg, NoOptions)

RecordSpec == Init /\ [][RecordNext]_vars

----------------------------------------------------------------------------
(* The vocabulary of the properties *)

\* the subscriptions in the list
Live == {i \in DOMAIN subs : subs[i] # Hole}

\* the invocations of subscription i among the invocations cl
CallsOf(cl, i) == {k \in DOMAIN cl : cl[k].sub = i}

\* the segments s are an initial run of the segments p
IsPrefix(s, p) == Len(s) <= Len(p) /\ SubSeq(p, 1, Len(s)) = s

\* the value set returned
Returned(lst) == lst.results[1].value

\* The structure of v: an entry for v and for everything below it, each
\* with its path from v; a mapping's entry holds Obj(0) whatever its address.
RECURSIVE Deep(_, _, _)
Deep(h, v, path) ==
  IF v.t = "object"
  THEN {[path |-> path, value |-> Obj(0)]}
         \cup UNION {Deep(h, h[v.n][k], path \o <<k>>) :
                       k \in {x \in AllKeys : h[v.n][x] # Absent}}
  ELSE {[path |-> path, value |-> v]}

\* the paths of the entries of v that are no mappings
LeafPaths(h, v, path) ==
  {e.path : e \in {d \in Deep(h, v, path) : d.value # Obj(0)}}

ValueAt(entries, path) ==
  IF \E e \in entries : e.path = path
  THEN (CHOOSE e \in entries : e.path = path).value
  ELSE Absent

\* The structure of a mapping with another merged into it: the entries of the
\* source, and the entries of the target that the source does not replace.
MergedDeep(target, source) ==
  source \cup
    {e \in target :
       \A n \in 1 .. Len(e.path) :
         \/ ValueAt(source, SubSeq(e.path, 1, n)) = Absent
         \/ /\ ValueAt(source, SubSeq(e.path, 1, n)) = Obj(0)
            /\ ValueAt(target, SubSeq(e.path, 1, n)) = Obj(0)}

\* the step is a set that reached the merge and ran its dispatch
DispatchingSet ==
  last'.op = "set" /\ last'.wrote /\ DispatchEnabled(last'.opts)

\* the state follows a set that reached the merge and ran its dispatch
AfterDispatchingSet ==
  last.op = "set" /\ last.wrote /\ DispatchEnabled(last.opts)

----------------------------------------------------------------------------
(* C1 *)

\* C1 as stated: after every set(p, v) that sameReferenceCheck does not
\* suppress, get(p) is the value set returned.  Stated here for the non-empty
\* paths only and up to the structure of the two values.
C1_GetReturnsValue ==
  (last.op = "set" /\ last.wrote /\ last.name # EmptyName) =>
    Deep(heap, get(heap, last.name), <<>>) = Deep(heap, Returned(last), <<>>)

\* C1 amended: after a set(p, v) on a non-empty p that sameReferenceCheck
\* does not suppress, get(p) is the very value set returned when that value
\* is no mapping or p held no mapping; when both are mappings get(p) is the
\* mapping p held with the returned value's entries merged into it.
C1_GetAfterSet ==
  [][ (last'.op = "set" /\ last'.wrote /\ last'.name # EmptyName) =>
        IF Returned(last').t = "object" /\ last'.old.t = "object"
        THEN last'.opts.defaultValue = Undef =>
               Deep(heap', get(heap', last'.name), <<>>) =
                 MergedDeep(Deep(heap, get(heap, last'.name), <<>>),
                            Deep(heap', Returned(last'), <<>>))
        ELSE StrictEq(get(heap', last'.name), Returned(last')) ]_vars

\* C1 witness: set('a', {}) on a tree whose 'a' is { b: 2 } has returned, and
\* get('a') still has its b.
C1_Witness ==
  /\ last.op = "set" /\ last.wrote /\ last.name = <<"a">>
  /\ Returned(last).t = "object" /\ last.old.t = "object"
  /\ Index(heap, Returned(last), "b") = Undef
  /\ Index(heap, get(heap, <<"a">>), "b") = Num(2)

----------------------------------------------------------------------------
(* C2 *)

\* C2: after a set(path, v) that reached the merge with its dispatch on,
\* every subscription whose segments are a prefix of path's (or equal) has
\* been invoked exactly once, with the value now stored at its own path and
\* with its own path.
C2_AncestorNotifiedOnce ==
  AfterDispatchingSet =>
    \A i \in Live :
      IsPrefix(Split(subs[i].name), Split(last.name)) =>
        /\ Cardinality(CallsOf(calls, i)) = 1
        /\ \A k \in CallsOf(calls, i) :
             /\ calls[k].value = get(heap, subs[i].name)
             /\ calls[k].name = subs[i].name

\* C2 witness: a subscription at 'a' was invoked by set('a.b', v) with a
\* mapping whose b is v.
C2_Witness ==
  /\ AfterDispatchingSet
  /\ last.name = <<"a", "b">>
  /\ \E i \in Live : \E k \in CallsOf(calls, i) :
       /\ subs[i].name = <<"a">>
       /\ calls[k].value.t = "object"
       /\ Index(heap, calls[k].value, "b") = Returned(last)

----------------------------------------------------------------------------
(* C3 *)

\* C3: after a set(path, v) of a mapping v that reached the merge with its
\* dispatch on, every subscription whose path is one of v's flattened leaf
\* paths (prefixed with path) has been invoked exactly once, with the value of
\* that leaf in v.
C3_LeafNotifiedOnce ==
  (AfterDispatchingSet /\ Returned(last).t = "object") =>
    \A i \in Live :
      Split(subs[i].name) \in
          LeafPaths(heap, Returned(last), Split(last.name)) =>
        /\ Cardinality(CallsOf(calls, i)) = 1
        /\ \A k \in CallsOf(calls, i) :
             /\ calls[k].value =
                  GetFrom(heap, Returned(last),
                          SubSeq(Split(subs[i].name),
                                 Len(Split(last.name)) + 1,
                                 Len(Split(subs[i].name))))
             /\ calls[k].name = subs[i].name

\* C3 witness: a subscription at 'a.b' was invoked with 2 by set('a', {b: 2}).
C3_Witness ==
  /\ AfterDispatchingSet
  /\ last.name = <<"a">>
  /\ Returned(last).t = "object"
  /\ \E i \in Live : \E k \in CallsOf(calls, i) :
       subs[i].name = <<"a", "b">> /\ calls[k].value = Num(2)

----------------------------------------------------------------------------
(* C4 *)

\* C4 as stated: the dispatch of set(path, v) invokes a subscription only if
\* its path is empty, its segments are a prefix of path's, or it is one of the
\* flattened leaf paths of the patch.
C4_OnlyRelatedInvoked ==
  (last.op = "set" /\ last.wrote) =>
    \A k \in DOMAIN calls :
      \/ calls[k].name = EmptyName
      \/ IsPrefix(Split(calls[k].name), Split(last.name))
      \/ Split(calls[k].name) \in
           LeafPaths(heap, Returned(last), Split(last.name))

----------------------------------------------------------------------------
(* C5 *)

\* get(s) of subscription i differs before and after the step
Changed(i) ==
  Deep(heap, get(heap, subs[i].name), <<>>) #
    Deep(heap', get(heap', subs[i].name), <<>>)

\* C5 as stated: in every set with its dispatch on, a subscription whose
\* get(s) differs after the set from before it is invoked.
C5_ChangeNotified ==
  [][ (last'.op = "set" /\ DispatchEnabled(last'.opts)) =>
        \A i \in Live : Changed(i) => CallsOf(calls', i) # {} ]_vars

\* C5 amended: in a set(path, v) that reached the merge with its dispatch on,
\* a subscription whose get(s) changes because s or a descendant of s was
\* written (s's segments are a prefix of path's) is invoked; a subscription
\* at a strict descendant of path is not invoked when the value written is no
\* mapping, whether or not its get(s) changes.
C5_WrittenPathNotified ==
  [][ DispatchingSet =>
        \A i \in Live :
          /\ (Changed(i) /\ IsPrefix(Split(subs[i].name), Split(last'.name)))
               => CallsOf(calls', i) # {}
          /\ (/\ IsPrefix(Split(last'.name), Split(subs[i].name))
              /\ subs[i].name # last'.name
              /\ Returned(last').t # "object")
               => CallsOf(calls', i) = {} ]_vars

\* C5 witness: set('a', 1) replaced the mapping at 'a' and the subscription at
\* 'a.b' was not invoked, the one at 'a' was.
C5_Witness ==
  /\ AfterDispatchingSet
  /\ last.name = <<"a">>
  /\ last.old.t = "object"
  /\ Returned(last) = Num(1)
  /\ \E i \in Live : subs[i].name = <<"a", "b">> /\ CallsOf(calls, i) = {}
  /\ \E i \in Live : subs[i].name = <<"a">> /\ CallsOf(calls, i) # {}

----------------------------------------------------------------------------
(* C6 *)

\* The step is the second of two set(p, v) in a row with the same v (the same
\* primitive, or the same object), both with their dispatch on and without an
\* inline default.
SameValueTwice ==
  /\ last.op = "set" /\ last'.op = "set"
  /\ last'.name = last.name
  /\ \/ last'.same
     \/ last.value.t # "object" /\ last'.value = last.value
  /\ DispatchEnabled(last.opts) /\ DispatchEnabled(last'.opts)
  /\ last.opts.defaultValue = Undef /\ last'.opts.defaultValue = Undef

\* the invocations of subscription i in the two calls together
InBoth(i) ==
  Cardinality(CallsOf(calls, i)) + Cardinality(CallsOf(calls', i))

----------------------------------------------------------------------------
(* C7 *)

\* C7: a set(p, v) without an inline default, with sameReferenceCheck in
\* effect for p and a transformed value strictly equal to the value resolved
\* at p, leaves the tree, the records and the subscriptions as they were,
\* invokes no callback and returns p and the value.
C7_SuppressedWriteChangesNothing ==
  [][ (/\ last'.op = "set"
       /\ last'.opts.defaultValue = Undef
       /\ Truthy(_getOptions(options, last'.name).sameReferenceCheck)
       /\ StrictEq(Returned(last'), last'.old)) =>
        /\ Deep(heap', Obj(Root), <<>>) = Deep(heap, Obj(Root), <<>>)
        /\ options' = options
        /\ subs' = subs
        /\ calls' = <<>>
        /\ ~last'.wrote
        /\ last'.results[1].name = last'.name ]_vars

\* C7 witness: set(p, 1) returned without writing while p held 1 and a
\* subscription at p was registered.
C7_Witness ==
  /\ last.op = "set" /\ ~last.wrote
  /\ last.value = Num(1) /\ Returned(last) = Num(1)
  /\ get(heap, last.name) = Num(1)
  /\ DispatchEnabled(last.opts)
  /\ calls = <<>>
  /\ \E i \in Live : subs[i].name = last.name

----------------------------------------------------------------------------
(* C8 *)

\* C8: after set(map) the invocations are one pass: every registered
\* subscription has been invoked exactly once and nothing else has, each with
\* the value its path has after all the keys of the map were written, and
\* every key holds the value its write returned.
C8_BatchOnePass ==
  last.op = "setMultiple" =>
    /\ Len(calls) = Cardinality(Live)
    /\ \A i \in Live :
         /\ Cardinality(CallsOf(calls, i)) = 1
         /\ \A k \in CallsOf(calls, i) :
              calls[k].value = get(heap, subs[i].name)
    /\ Len(last.results) = Len(last.list)
    /\ \A n \in DOMAIN last.list :
         /\ last.results[n].name = last.list[n].name
         /\ get(heap, last.list[n].name) = last.results[n].value

\* C8 witness: set({a: 1, b: 1}) invoked a subscription at 'b' and one at
\* 'a.b', each once.
C8_Witness ==
  /\ last.op = "setMultiple"
  /\ Len(calls) = 2
  /\ \E i \in Live : \E k \in CallsOf(calls, i) :
       subs[i].name = <<"b">> /\ calls[k].value = Num(1)
  /\ \E i \in Live : \E k \in CallsOf(calls, i) :
       subs[i].name = <<"a", "b">> /\ calls[k].value = Undef

----------------------------------------------------------------------------
(* C9, C10 *)

\* The step's dispatch reaches the subscriptions left in the list: a batch
\* set and a trigger without a name invoke each of them once, a set that
\* reached the merge those whose path is empty or whose segments are a prefix
\* of the written path's.
SurvivorsInvoked ==
  /\ (last'.op = "setMultiple" \/ (last'.op = "trigger" /\ last'.name = NoName))
       => \A i \in Live' : Cardinality(CallsOf(calls', i)) = 1
  /\ DispatchingSet
       => \A i \in Live' :
            (\/ subs'[i].name = EmptyName
             \/ IsPrefix(Split(subs'[i].name), Split(last'.name)))
              => Cardinality(CallsOf(calls', i)) = 1

\* C9: no call ever invokes a subscription of a subscribe call whose handle
\* was used; handle.unsubscribe() deletes every subscription of its subscribe
\* call and leaves every other one in place; the ones in place keep being
\* invoked.
C9_UnsubscribedNeverInvoked ==
  [][ /\ \A k \in DOMAIN calls' :
           calls'[k].sub \notin {c.sub : c \in cancelled'}
      /\ last'.op = "unsubscribe" =>
           \A i \in DOMAIN subs :
             subs'[i] = IF subs[i].id = last'.id THEN Hole ELSE subs[i]
      /\ SurvivorsInvoked ]_vars

\* C9 witness: after an unsubscribe a subscription of another subscribe call
\* with the same path was invoked.
C9_Witness ==
  \E c \in cancelled : \E k \in DOMAIN calls :
    /\ calls[k].name = c.name
    /\ calls[k].sub # c.sub
    /\ subs[c.sub] = Hole

\* C10: no call ever invokes a subscription that an unsubscribeAll deleted;
\* unsubscribeAll(p) deletes the subscriptions whose path equals p and leaves
\* every other one in place; the ones in place keep being invoked.
C10_UnsubscribeAllExact ==
  [][ /\ \A k \in DOMAIN calls' :
           calls'[k].sub \notin {c.sub : c \in purged'}
      /\ last'.op = "unsubscribeAll" =>
           \A i \in DOMAIN subs :
             subs'[i] = IF subs[i].name = last'.name THEN Hole ELSE subs[i]
      /\ SurvivorsInvoked ]_vars

\* C10 witness: after unsubscribeAll('a') a set('a.b', v) invoked a
\* subscription at 'a.b'.
C10_Witness ==
  /\ \E c \in purged : c.name = <<"a">>
  /\ last.op = "set" /\ last.name = <<"a", "b">>
  /\ \E k \in DOMAIN calls : calls[k].name = <<"a", "b">>

----------------------------------------------------------------------------
(* C11 *)

\* the prefixes of path (path included) that have a record
RegisteredPrefixes(path) ==
  {n \in 1 .. Len(path) : SubSeq(path, 1, n) \in DOMAIN options}

\* the whole record at the longest prefix of path that has one, {} if none has
LongestRecord(path) ==
  IF RegisteredPrefixes(path) = {} THEN EmptyRecord
  ELSE options[SubSeq(path, 1,
                      CHOOSE n \in RegisteredPrefixes(path) :
                        \A m \in RegisteredPrefixes(path) : m <= n)]

\* C11: for every path, the effective record is the whole record registered at
\* the longest prefix of the path that has a record, laid over the built-in
\* defaults, and the built-in defaults when no prefix has one; no field comes
\* from the record of a shorter prefix, and getDefaultValue is that record's
\* default.
C11_LongestPrefixRecord ==
  \A path \in {<<"a">>, <<"b">>, <<"a", "b">>, <<"b", "a">>, <<"a", "b", "a">>} :
    /\ _getOptions(options, path) = Overlay(_defaultOptions, LongestRecord(path))
    /\ getDefaultValue(options, path) =
         IF LongestRecord(path).defaultValue = Absent
         THEN Undef ELSE LongestRecord(path).defaultValue

\* C11 witness: 'a' has a record with a type and a default, 'a.b' one with
\* neither, and set('a.b', false) has stored false uncoerced.
C11_Witness ==
  /\ <<"a">> \in DOMAIN options /\ <<"a", "b">> \in DOMAIN options
  /\ options[<<"a">>] = OnlyTrue
  /\ options[<<"a", "b">>] = DefaultZero
  /\ last.op = "set" /\ last.name = <<"a", "b">> /\ last.wrote
  /\ Returned(last) = Bool(FALSE)
  /\ getDefaultValue(options, <<"a", "b", "a">>) = Num(0)

----------------------------------------------------------------------------
(* C12 *)

\* setOptions(name, rec) finds get(name) undefined and rec has a default
Seeds(name, rec) ==
  /\ rec.defaultValue # Absent /\ rec.defaultValue # Undef
  /\ get(heap, name) = Undef

\* C12: setOptions(p, r) makes r the record of p and leaves the other records
\* alone; the tree changes exactly when r.defaultValue is defined and get(p)
\* was undefined, and get(p) is then r.defaultValue (0 included); otherwise
\* the tree is as before.
C12_SetOptionsSeeds ==
  [][ \A name \in OptionNames, rec \in OptionRecords :
        SetOptions(name, rec) =>
          /\ DOMAIN options' = DOMAIN options \cup {name}
          /\ options'[name] = rec
          /\ \A n \in DOMAIN options \ {name} : options'[n] = options[n]
          /\ Seeds(name, rec) <=>
               Deep(heap', Obj(Root), <<>>) # Deep(heap, Obj(Root), <<>>)
          /\ Seeds(name, rec) => get(heap', name) = rec.defaultValue ]_vars

\* C12 witness: setOptions('a.b', { defaultValue: 0 }) has put 0 at 'a.b'
\* while 'a' had a record.
C12_Witness ==
  /\ last.op = "setOptions" /\ last.name = <<"a", "b">>
  /\ options[<<"a", "b">>] = DefaultZero
  /\ last.wrote
  /\ get(heap, <<"a", "b">>) = Num(0)
  /\ <<"a">> \in DOMAIN options

----------------------------------------------------------------------------
(* C13 *)

\* C13 as stated: after new State(D), get() has the structure of D, and for
\* every leaf path l of D get(l) and getDefaultValue(l) are D's value at l.
C13_SeededFromDefaults ==
  last.op = "new" =>
    /\ Deep(heap, get(heap, NoName), <<>>) = Deep(heap, last.value, <<>>)
    /\ \A l \in LeafPaths(heap, last.value, <<>>) :
         /\ get(heap, l) = GetFrom(heap, last.value, l)
         /\ getDefaultValue(options, l) = GetFrom(heap, last.value, l)

----------------------------------------------------------------------------
(* C14 *)

\* C14 as stated: the value a set without inline default stores is the
\* coerced value, unless the effective record's allowedValues is a non-empty
\* set the coerced value is no member of: then it is the record's
\* defaultValue if defined and null otherwise.  An absent or empty
\* allowedValues filters nothing.
C14_AllowListFilter ==
  (last.op = "set" /\ last.opts.defaultValue = Undef) =>
    Returned(last) =
      IF /\ _getOptions(options, last.name).allowedValues.present
         /\ _getOptions(options, last.name).allowedValues.values # {}
         /\ Coerce(last.value, last.old, _getOptions(options, last.name))
              \notin _getOptions(options, last.name).allowedValues.values
      THEN IF _getOptions(options, last.name).defaultValue # Undef
           THEN _getOptions(options, last.name).defaultValue
           ELSE Null
      ELSE Coerce(last.value, last.old, _getOptions(options, last.name))

----------------------------------------------------------------------------
(* C15 *)

\* what set(name, value) without options does to the store of this state,
\* made being the heap with the value and the value
PlainSet(name, made) ==
  set([heap |-> made.heap, options |-> options], subs, name, made.ref,
      NoOptions)

\* C15: set(p, v, { triggerSubscriptionCallback: false }) leaves the tree as
\* set(p, v) would leave it, reaches the merge when set(p, v) would, leaves
\* the records and the subscriptions alone and invokes no callback.
C15_NoDispatchWritesSilently ==
  [][ \A name \in {<<"a">>, <<"a", "b">>},
         arg \in {Given(Num(1)), Literal(ObjectB2)} :
        Set(name, arg, NoDispatch) =>
          /\ calls' = <<>>
          /\ Deep(heap', Obj(Root), <<>>) =
               Deep(PlainSet(name, Materialize(heap, arg)).heap, Obj(Root), <<>>)
          /\ last'.wrote = PlainSet(name, Materialize(heap, arg)).wrote
          /\ options' = options
          /\ subs' = subs ]_vars

\* C15 witness: set('a', { b: 2 }, { triggerSubscriptionCallback: false })
\* wrote while subscriptions at 'a' and at 'a.b' were registered, and none
\* was invoked.
C15_Witness ==
  /\ last.op = "set" /\ last.wrote /\ last.opts = NoDispatch
  /\ last.name = <<"a">>
  /\ get(heap, <<"a", "b">>) = Num(2) /\ last.old # get(heap, <<"a">>)
  /\ calls = <<>>
  /\ \E i \in Live : subs[i].name = <<"a">>
  /\ \E i \in Live : subs[i].name = <<"a", "b">>

----------------------------------------------------------------------------
(* C16 *)

\* C16: triggerSubscriptionCallbacks(name, options) leaves the tree, the
\* records and the subscription list as they were; without a name it invokes
\* every registered subscription exactly once and nothing else; with a name
\* it invokes, once, every subscription whose path is empty or whose segments
\* are a prefix of the name's (the name itself included).
C16_ManualTrigger ==
  [][ last'.op = "trigger" =>
        /\ Deep(heap', Obj(Root), <<>>) = Deep(heap, Obj(Root), <<>>)
        /\ options' = options
        /\ subs' = subs
        /\ last'.name = NoName =>
             /\ Len(calls') = Cardinality(Live)
             /\ \A i \in Live : Cardinality(CallsOf(calls', i)) = 1
        /\ last'.name # NoName =>
             \A i \in Live :
               (\/ subs[i].name = EmptyName
                \/ IsPrefix(Split(subs[i].name), Split(last'.name)))
                 => Cardinality(CallsOf(calls', i)) = 1 ]_vars

\* C16 witness: triggerSubscriptionCallbacks('a.b') invoked a subscription at
\* 'a' and one at '' while nothing was stored under 'a'.
C16_Witness ==
  /\ last.op = "trigger" /\ last.name = <<"a", "b">>
  /\ get(heap, <<"a">>) = Undef
  /\ \E i \in Live : subs[i].name = <<"a">> /\ CallsOf(calls, i) # {}
  /\ \E i \in Live : subs[i].name = EmptyName /\ CallsOf(calls, i) # {}

----------------------------------------------------------------------------
(* C17 *)

\* C17: when a call returns, the invocations of its dispatch pass have been
\* made in the order in which the subscriptions were registered (the order of
\* the list), no entry of the list more than once, and none is left to be
\* made: a pass without a name has invoked every entry of the list.
C17_RegistrationOrder ==
  /\ \A j, k \in DOMAIN calls : j < k => calls[j].sub < calls[k].sub
  /\ \A k \in DOMAIN calls : calls[k].sub \in Live
  /\ (last.op = "setMultiple" \/ (last.op = "trigger" /\ last.name = NoName))
       => {calls[k].sub : k \in DOMAIN calls} = Live

\* C17 witness: a set invoked the subscriptions of two subscribe calls, the
\* one registered first before the other.
C17_Witness ==
  /\ last.op = "set"
  /\ Len(calls) >= 2
  /\ subs[calls[1].sub].id < subs[calls[2].sub].id

----------------------------------------------------------------------------
(* C18 *)

\* C18 as stated: every invocation of a call that was given an options object
\* has received the value get(s) returns, the path s of its subscription and
\* that options object.
C18_CallbackArguments ==
  (last.op \in {"set", "setMultiple", "trigger"} /\ last.opts.given) =>
    \A k \in DOMAIN calls :
      /\ calls[k].value = get(heap, subs[calls[k].sub].name)
      /\ calls[k].name = subs[calls[k].sub].name
      /\ calls[k].options = last.opts

----------------------------------------------------------------------------
(* C19 *)

\* the set that returned was left by an exception: it returned nothing
Threw(lst) == lst.op = "set" /\ Returned(lst) = Absent

\* C19: a set(p, v) without inline default whose resolved record is of type
\* custom with a function that raises is left by the exception, and the
\* tree, the records and the subscription list are as before the call and no
\* callback was invoked; no other set is left by an exception.
C19_RaisingTransform ==
  [][ last'.op = "set" =>
        IF /\ last'.opts.defaultValue = Undef
           /\ _getOptions(options, last'.name).type = "custom"
           /\ _getOptions(options, last'.name).function = "raise"
        THEN /\ Threw(last')
             /\ Deep(heap', Obj(Root), <<>>) = Deep(heap, Obj(Root), <<>>)
             /\ options' = options
             /\ subs' = subs
             /\ calls' = <<>>
        ELSE ~Threw(last') ]_vars

\* C19 witness: set('a.b', v) was left by the exception of the function of
\* the record at 'a' while 'a.b' held a value and had a subscriber.
C19_Witness ==
  /\ Threw(last) /\ last.name = <<"a", "b">>
  /\ get(heap, <<"a", "b">>) # Undef
  /\ get(heap, <<"a", "b">>) # last.value
  /\ \E i \in Live : subs[i].name = <<"a", "b">>
  /\ calls = <<>>

----------------------------------------------------------------------------
(* C20 *)

\* setOptions(name, { defaultValue: d }) followed by set(name, value), from
\* the store of this state
SetOptionsThenSet(name, value, d) ==
  set(setOptions([heap |-> heap, options |-> options], name,
                 Record(d, "absent", NoAllowed, Absent)),
      subs, name, value, NoOptions)

\* the subscriptions the invocations cl name
Invoked(cl) == {cl[k].sub : k \in DOMAIN cl}

\* C20: set(p, v, { defaultValue: d }) leaves the tree and the records as
\* setOptions(p, { defaultValue: d }) followed by set(p, v) leaves them, and
\* invokes the same subscriptions; the record of p is then { defaultValue: d }
\* alone, and the record resolved for p has neither type nor allowedValues.
C20_InlineDefaultIsSugar ==
  [][ \A name \in OptionNames, v \in {Num(1), Num(2)} :
        Set(name, Given(v), InlineDefault) =>
          /\ Deep(heap', Obj(Root), <<>>) =
               Deep(SetOptionsThenSet(name, v, InlineDefault.defaultValue).heap,
                    Obj(Root), <<>>)
          /\ options' =
               SetOptionsThenSet(name, v, InlineDefault.defaultValue).options
          /\ Invoked(calls') =
               Invoked(SetOptionsThenSet(name, v,
                                         InlineDefault.defaultValue).calls)
          /\ Returned(last') =
               SetOptionsThenSet(name, v, InlineDefault.defaultValue).value
          /\ options'[name] =
               Record(InlineDefault.defaultValue, "absent", NoAllowed, Absent)
          /\ _getOptions(options', name).type = "absent"
          /\ ~_getOptions(options', name).allowedValues.present ]_vars

\* C20 witness: set('a', 2, { defaultValue: 1 }) stored 2 and invoked the
\* subscription at 'a' where the record of 'a' made every value a boolean.
C20_Witness ==
  /\ last.op = "set" /\ last.opts = InlineDefault /\ last.name = <<"a">>
  /\ last.old = Bool(TRUE)
  /\ Returned(last) = Num(2)
  /\ options[<<"a">>] = Record(Num(1), "absent", NoAllowed, Absent)
  /\ \E i \in Live : subs[i].name = <<"a">> /\ CallsOf(calls, i) # {}

----------------------------------------------------------------------------
(* C21 *)

\* neither path is a prefix of the other
Unrelated(p, q) == ~IsPrefix(p, q) /\ ~IsPrefix(q, p)

\* C21 as stated: a set(p, v) on a non-empty p without inline default leaves
\* get(q) as it was for every path q that is no prefix of p and that p is no
\* prefix of.
C21_WriteFrame ==
  [][ (/\ last'.op = "set"
       /\ last'.name # EmptyName
       /\ last'.opts.defaultValue = Undef) =>
        \A q \in {<<"a">>, <<"b">>, <<"a", "b">>, <<"a", "a">>, <<"b", "a">>,
                  <<"b", "b">>} :
          Unrelated(last'.name, q) =>
            Deep(heap', get(heap', q), <<>>) = Deep(heap, get(heap, q), <<>>) ]_vars

----------------------------------------------------------------------------
(* C22 *)

\* C22 as stated: after set('', v) with a mapping v the tree has every entry
\* of v at v's own path from the root, and the root has no key named by the
\* empty string.
C22_EmptyPathIsRoot ==
  (/\ last.op = "set" /\ last.name = EmptyName
   /\ Returned(last).t = "object") =>
    /\ Index(heap, Obj(Root), "") = Undef
    /\ Deep(heap, Returned(last), <<>>) \subseteq Deep(heap, get(heap, EmptyName), <<>>)

----------------------------------------------------------------------------
(* C23 *)

\* the entries the step's invocations name whose callback is callback
InvokedWith(callback) ==
  {calls'[k].sub : k \in {n \in DOMAIN calls' :
                            subs[calls'[n].sub].callback = callback}}

\* C23: the subscriptions a set's dispatch pass invokes were all in the list
\* when the pass started; one that a callback invoked earlier in the pass
\* unsubscribed is not invoked, and one that a callback added during the pass
\* is not invoked.
C23_PassOverStartingList ==
  [][ last'.op = "set" =>
        /\ \A k \in DOMAIN calls' : calls'[k].sub \in Live
        /\ \A i \in Live :
             (\E j \in InvokedWith(Unsubscribes(subs[i].id)) : j < i)
               => CallsOf(calls', i) = {}
        /\ \A i \in DOMAIN subs' \ DOMAIN subs : CallsOf(calls', i) = {} ]_vars

\* C23 witness: in the pass of a set('a', v) the first callback unsubscribed
\* the second subscription at 'a', in the list until then, which was then
\* not invoked; the list has a third entry.
C23_Witness ==
  /\ last.op = "set" /\ last.name = <<"a">>
  /\ Len(subs) >= 3 /\ Len(calls) >= 1
  /\ calls[1].sub = 1 /\ 2 \in calls[1].live
  /\ subs[2] = Hole
  /\ \E c \in cancelled : c.sub = 2 /\ c.name = <<"a">>
  /\ \A k \in DOMAIN calls : calls[k].sub # 2

----------------------------------------------------------------------------
(* C24 *)

\* the step is set(name, v, { defaultValue: v }) on a name that was unset:
\* the value is there afterwards and no callback was invoked
SilentSeed(name, v) ==
  (Set(name, Given(v), SameDefault(v)) /\ get(heap, name) = Undef) =>
    /\ get(heap', name) = v
    /\ calls' = <<>>

\* C24 as stated: setOptions invokes no callback, also when it seeds a default
\* at a subscribed path, and a first set(p, v, { defaultValue: v }) on an
\* unset p makes get(p) v and invokes no callback.
C24_SeedingIsSilent ==
  [][ /\ \A name \in OptionNames, rec \in {DefaultZero, TypeBoolean} :
           SetOptions(name, rec) => calls' = <<>>
      /\ \A name \in OptionNames, v \in {Num(1), NaN} :
           SilentSeed(name, v) ]_vars

----------------------------------------------------------------------------
(* C25 *)

\* the records but the ones registered at strict descendants of name
NotBelow(opts, name) ==
  [n \in {m \in DOMAIN opts : ~(Len(m) > Len(name) /\ IsPrefix(name, m))}
     |-> opts[n]]

\* set(name, value) in the store that has no record below name
SetNotBelow(made, name) ==
  set([heap |-> made.heap, options |-> NotBelow(options, name)], subs, name,
      made.ref, NoOptions)

\* set(list) in the store that has no record below 'a'
SetMultipleNotBelow(made) ==
  _setMultiple([heap |-> made.heap, options |-> NotBelow(options, <<"a">>)],
               subs, made.list, NoOptions)

\* the record resolved for name neither coerces nor filters
Untyped(opts, name) ==
  /\ _getOptions(opts, name).type = "absent"
  /\ ~_getOptions(opts, name).allowedValues.present

\* C25: a set('a', v) and a batch set of { a: v } leave the tree, the value
\* returned and the invocations that the same call leaves in a store with no
\* record below 'a'; when the record resolved for 'a' has neither type nor
\* allow-list, get('a.b') is 2 after { b: 2 } was written at 'a', whatever
\* record 'a.b' has.
C25_OnlyWrittenPathRecord ==
  [][ /\ \A arg \in NestedArgs :
           Set(<<"a">>, arg, NoOptions) =>
             /\ Deep(heap', Obj(Root), <<>>) =
                  Deep(SetNotBelow(Materialize(heap, arg), <<"a">>).heap,
                       Obj(Root), <<>>)
             /\ Invoked(calls') =
                  Invoked(SetNotBelow(Materialize(heap, arg), <<"a">>).calls)
             /\ Deep(heap', Returned(last'), <<>>) =
                  Deep(SetNotBelow(Materialize(heap, arg), <<"a">>).heap,
                       SetNotBelow(Materialize(heap, arg), <<"a">>).value,
                       <<>>)
             /\ (arg = Literal(ObjectB2) /\ Untyped(options, <<"a">>))
                  => get(heap', <<"a", "b">>) = Num(2)
      /\ SetMultiple(BatchA, NoOptions) =>
           /\ Deep(heap', Obj(Root), <<>>) =
                Deep(SetMultipleNotBelow(
                       MaterializeAll([heap |-> heap, list |-> <<>>],
                                      BatchA)).heap,
                     Obj(Root), <<>>)
           /\ Untyped(options, <<"a">>) => get(heap', <<"a", "b">>) = Num(2)
    ]_vars

\* C25 witness: { b: 2 } was written at 'a' while 'a.b' had the record
\* { type: 'boolean', allowedValues: [true] }, and get('a.b') is 2.
C25_Witness ==
  /\ last.op = "set" /\ last.name = <<"a">> /\ last.value.t = "object"
  /\ <<"a", "b">> \in DOMAIN options
  /\ options[<<"a", "b">>] = OnlyTrue
  /\ Untyped(options, <<"a">>)
  /\ get(heap, <<"a", "b">>) = Num(2)

----------------------------------------------------------------------------
(* C26 *)

\* the record r of the store with tree h, its defaultValue taken by content
RecordContent(h, r) ==
  [r EXCEPT !.defaultValue = Deep(h, r.defaultValue, <<>>)]

\* C26 as stated: a set with no inline defaultValue leaves every record as it
\* was, and getDefaultValue(q) returns for every q what it returned before,
\* also where the default is a mapping and the set wrote beneath q.
C26_SetKeepsDefaults ==
  [][ (last'.op = "set" /\ last'.opts.defaultValue = Undef) =>
        /\ DOMAIN options' = DOMAIN options
        /\ \A n \in DOMAIN options :
             RecordContent(heap', options'[n]) = RecordContent(heap, options[n])
        /\ \A q \in RecordNames :
             Deep(heap', getDefaultValue(options', q), <<>>) =
               Deep(heap, getDefaultValue(options, q), <<>>) ]_vars

----------------------------------------------------------------------------
(* C27 *)

\* C27 as stated: with one subscriber at s whose callback calls set(s, c)
\* with a fixed scalar c, the sets nested in a set end: no invocation is
\* made by a set nested MaxDepth deep.
C27_ReentrantSetEnds ==
  last.op = "set" => \A k \in DOMAIN calls : calls[k].depth < MaxDepth

====
